---- MODULE Spec2Model ----
(***************************************************************************)
(* Model of the anti-spoofing face authentication services.                *)
(*                                                                         *)
(*   ml-model/authenticate.py   FaceAuthenticator (liveness gate, matcher) *)
(*   ml-model/main.py           the ml-model /authenticate endpoint        *)
(*   ml-model/generate_embedding.py   generate_face_embedding              *)
(*   Database/main.py, Database/database.py   the Database service         *)
(*                                                                         *)
(* Abstractions.  A face descriptor (128 floats in the program) is a point *)
(* with two integer coordinates, in tenths: the threshold 0.6 is 6 and     *)
(* "distance <= tolerance" is decided on the squares.  An image is         *)
(* the record of what the two models compute from its pixels: the output   *)
(* of the ONNX session (or that it raises) and the list of face encodings  *)
(* found by face_recognition (or that detection raises), with the channel  *)
(* order of the array.  None is the string "None".                         *)
(***************************************************************************)
EXTENDS Integers, Sequences, FiniteSets, TLC

VARIABLES
    is_authenticated,   \* FaceAuthenticator.is_authenticated (the one shared authenticator)
    call,               \* ml-model /authenticate requests: call[r] is the handler's frame
    store,              \* the RegisteredUsers collection: sequence of [name, embedding]
    dbreq,              \* the Database /authenticate request in progress
    emb,                \* the calls of generate_face_embedding made so far: [image, result]
    dimension,          \* the collection's dimensionality, fixed by its first add (0: not yet)
    ureq,               \* Database /addUser, /deleteUser, /getAllUsers requests: ureq[a] is the handler's frame
    dbop,               \* the last call of insert or delete_user, or of a reading method called
                        \* directly: its arguments, the store before it, its result
    hist,               \* per user name, the last successful insert or delete_user: [name, op, embedding]
    ereq,               \* the ml-model /getEmbedding request in progress: the handler's frame
    dbinit              \* Database.__init__: its position, its locals, what it has called

userVars == <<ureq, dbop, hist>>

vars == <<is_authenticated, call, store, dbreq, emb, dimension, userVars, ereq, dbinit>>

----------------------------------------------------------------------------
(* Bounds *)

NumCalls == 2       \* request slots of the ml-model service
MaxUsers == 2       \* users in a known-embeddings map / in the store
MaxFaces == 2       \* face encodings found in one frame
NumUserRequests == 2    \* request slots of the Database service's user endpoints

(* Program constants *)

DefaultThreshold == 6   \* authenticate(..., threshold=0.6), Form(0.6)
DbDefaultThreshold == 5 \* Database /authenticate: Form(0.5)

None == "None"

Calls == 1..NumCalls

Names == {"alice", "bob", "carol"}

\* Well-formed descriptors.  Distances: 0.6, 0.8 and 1.0 (squares 36, 64, 100).
Descriptors == {<<0, 0>>, <<0, 6>>, <<8, 0>>}

\* Thresholds a caller may pass, in tenths (0 and 1.0), or none (the default).
Thresholds == {0, 10}
NoThreshold == [given |-> FALSE, value |-> 0]
GivenThreshold(t) == [given |-> TRUE, value |-> t]

\* Values of a known-embeddings map as they arrive in the JSON form field:
\* a list of numbers of a descriptor's length, a list of another length, a ragged
\* nested list (numpy cannot build an array from it), or not a list.
ListEmbedding(v) == [kind |-> "list", v |-> v]
WrongLenEmbedding == [kind |-> "list", v |-> <<0>>]
RaggedEmbedding == [kind |-> "ragged", v |-> <<>>]
NotAListEmbedding == [kind |-> "str", v |-> <<>>]

GoodEmbeddings == {ListEmbedding(v) : v \in Descriptors}
ListEmbeddings == GoodEmbeddings \cup {WrongLenEmbedding, RaggedEmbedding}
Embeddings == ListEmbeddings \cup {NotAListEmbedding}

SeqsUpTo(S, n) == UNION {[1..k -> S] : k \in 0..n}

DistinctNames(m) == \A i, j \in 1..Len(m) : i # j => m[i].name # m[j].name

\* A dictionary in iteration (insertion) order: a sequence of entries with distinct keys.
MapsOf(E, n) == {m \in SeqsUpTo([name : Names, embedding : E], n) : DistinctNames(m)}

KnownMaps == MapsOf(Embeddings, MaxUsers)

FaceSeqs == SeqsUpTo(Descriptors, MaxFaces)

\* What the ONNX session does with the preprocessed frame.
ModelOutputs == {"raise", "logits_spoof", "logits_real"}

\* Decoded frames.  decode_base64_image yields RGB arrays.
Images ==
    {[channels |-> "RGB", output |-> o, detect |-> "ok", faces |-> f] :
        o \in ModelOutputs, f \in FaceSeqs}
    \cup
    {[channels |-> "RGB", output |-> o, detect |-> "raise", faces |-> <<>>] :
        o \in ModelOutputs}

NoImage == [channels |-> "RGB", output |-> "raise", detect |-> "raise", faces |-> <<>>]

----------------------------------------------------------------------------
(* Pure functions of ml-model/authenticate.py *)

\* frame[:, :, ::-1]: the same pixels with the channel order reversed.
ReverseChannels(frame) ==
    [frame EXCEPT !.channels = IF @ = "RGB" THEN "BGR" ELSE "RGB"]

\* preprocess_image, lines 50-69: an array of three channels has its
\* channels reversed, then is resized, scaled to [0, 1] and laid out
\* channel-first with a batch dimension.
PreprocessImage(image) ==
    [channels |-> ReverseChannels(image).channels, layout |-> "1x3x252x252"]

NoInput == [channels |-> "RGB", layout |-> "none"]

\* np.argmax(output, axis=1)[0] over the two classes.
ArgMax(output) == IF output = "logits_real" THEN 1 ELSE 0

\* Squared Euclidean distance of two descriptors of equal length.
RECURSIVE SqDist(_, _)
SqDist(a, b) ==
    IF a = <<>> THEN 0
    ELSE (Head(a) - Head(b)) * (Head(a) - Head(b)) + SqDist(Tail(a), Tail(b))

\* The comparison of compare_faces: face_distance(...) <= tolerance.
WithinToleranceStrict(known, face_encoding, tolerance) ==
    SqDist(known, face_encoding) < tolerance * tolerance

WithinTolerance(known, face_encoding, tolerance) ==
    SqDist(known, face_encoding) <= tolerance * tolerance

\* np.array(embedding) raises for a ragged nested list.
ConversionRaises(known_face_embedding_dict) ==
    \E i \in 1..Len(known_face_embedding_dict) :
        known_face_embedding_dict[i].embedding.kind = "ragged"

\* compare_faces raises when the known arrays do not broadcast against the
\* face encoding (an array of another length, or not numeric).
CompareRaises(known_face_embeddings, face_encoding) ==
    \E i \in 1..Len(known_face_embeddings) :
        \/ known_face_embeddings[i].kind # "list"
        \/ Len(known_face_embeddings[i].v) # Len(face_encoding)

\* face_recognition.compare_faces(known_face_embeddings, face_encoding, tolerance)
CompareFaces(known_face_embeddings, face_encoding, tolerance) ==
    [i \in 1..Len(known_face_embeddings) |->
        WithinTolerance(known_face_embeddings[i].v, face_encoding, tolerance)]

\* for i in range(len(results)): if results[i]: return user_names[i]
LastTrue(results) ==
    IF \E i \in 1..Len(results) : results[i]
    THEN CHOOSE i \in 1..Len(results) :
            results[i] /\ \A j \in 1..Len(results) : results[j] => j <= i
    ELSE 0

FirstTrue(results) ==
    IF \E i \in 1..Len(results) : results[i]
    THEN CHOOSE i \in 1..Len(results) :
            results[i] /\ \A j \in 1..(i - 1) : ~results[j]
    ELSE 0

\* Line 128: the faces the loop goes on to after a face that matched no
\* user (first: none, the loop ends after the first face).
RemainingFacesNone(face_encodings) == <<>>

RemainingFaces(face_encodings) == Tail(face_encodings)

\* for face_encoding in face_encodings: ... return None
RECURSIVE MatchFaces(_, _, _, _)
MatchFaces(face_encodings, known_face_embeddings, user_names, tolerance) ==
    IF face_encodings = <<>> THEN None
    ELSE LET results == CompareFaces(known_face_embeddings, Head(face_encodings), tolerance)
             i == FirstTrue(results)
         IN  IF i # 0 THEN user_names[i]
             ELSE MatchFaces(RemainingFaces(face_encodings), known_face_embeddings,
                             user_names, tolerance)

\* Lines 134-136: except Exception: return None; first with the exception
\* of the named call left to the caller.
GetUserNameExceptNothing(where) == [raised |-> TRUE, propagates |-> TRUE, name |-> None]

GetUserNameExcept(where) == [raised |-> TRUE, propagates |-> FALSE, name |-> None]

\* get_user_name: [raised, propagates, name].  Everything runs inside
\* try/except Exception, which turns any error into None.
GetUserName(frame_rgb, known_face_embeddings, user_names, tolerance) ==
    IF frame_rgb.detect = "raise"
        THEN GetUserNameExcept("face_locations")
    ELSE IF frame_rgb.faces = <<>>
        THEN [raised |-> FALSE, propagates |-> FALSE, name |-> None]
    ELSE IF CompareRaises(known_face_embeddings, Head(frame_rgb.faces))
        THEN GetUserNameExcept("compare_faces")
    ELSE [raised |-> FALSE, propagates |-> FALSE,
          name |-> MatchFaces(frame_rgb.faces, known_face_embeddings,
                              user_names, tolerance)]

----------------------------------------------------------------------------
(* The ml-model service: /authenticate and FaceAuthenticator.authenticate *)

NoRet == [kind |-> "none", is_authenticated |-> FALSE, user_name |-> None, exc |-> "none"]
NoResp == [status |-> 0, is_authenticated |-> FALSE, user_name |-> None]

\* The types of the two arguments authenticate is called with; the endpoint
\* passes a decoded array and a parsed dictionary.
EndpointArgs == [image |-> "array", known |-> "dict"]

\* What the client posted in the form fields image and known_face_embeddings,
\* and whether it posted a threshold (none: the frame is no endpoint's).
NoForm == [image |-> "none", known |-> "none", threshold |-> FALSE]

IdleCall ==
    [pc |-> "idle", origin |-> 0, args |-> EndpointArgs,
     form |-> NoForm,
     image |-> NoImage, known |-> <<>>, threshold |-> 0,
     user_names |-> <<>>, known_face_embeddings |-> <<>>,
     prediction |-> 0, frame_rgb |-> NoImage, preprocessed_frame |-> NoInput,
     livenessRuns |-> 0, matcherCalls |-> 0, raisedAt |-> "none",
     ret |-> NoRet, resp |-> NoResp]

\* The form fields of a request.
ImageForms ==
    {[kind |-> "undecodable", image |-> NoImage]}
    \cup {[kind |-> "image", image |-> i] : i \in Images}

KnownForms ==
    {[kind |-> "invalid", dict |-> <<>>], [kind |-> "list", dict |-> <<>>]}
    \cup {[kind |-> "dict", dict |-> m] : m \in KnownMaps}

ThresholdForms == {GivenThreshold(t) : t \in Thresholds} \cup {NoThreshold}

\* json.loads and the two checks of lines 158-164, and the same without the
\* check of the values.
KnownFacesValidAnyValue(known_face_embeddings) ==
    known_face_embeddings.kind = "dict"

KnownFacesValid(known_face_embeddings) ==
    /\ known_face_embeddings.kind = "dict"
    /\ \A i \in 1..Len(known_face_embeddings.dict) :
        known_face_embeddings.dict[i].embedding.kind # "str"

\* threshold: float = Form(0.6)
FormThreshold(threshold) ==
    IF threshold.given THEN threshold.value ELSE DefaultThreshold

HttpError(code) == [status |-> code, is_authenticated |-> FALSE, user_name |-> None]

\* AuthenticateResponse(is_authenticated, user_name if is_authenticated else None)
AuthenticateResponse(is_auth, user_name) ==
    [status |-> 200, is_authenticated |-> is_auth,
     user_name |-> IF is_auth THEN user_name ELSE None]

\* authenticate raises: except Exception -> raise ValueError; the endpoint's
\* except Exception answers 500.
SwallowInAuthenticate(c, where) ==
    [c EXCEPT !.pc = "done", !.raisedAt = where,
              !.ret = [NoRet EXCEPT !.kind = "return"],
              !.resp = [status |-> 200, is_authenticated |-> FALSE, user_name |-> None]]

RaiseInAuthenticate(c, where) ==
    [c EXCEPT !.pc = "done", !.raisedAt = where,
              !.ret = [NoRet EXCEPT !.kind = "raise", !.exc = "ValueError"],
              !.resp = HttpError(500)]

\* Lines 155-182 of main.py: validation of the form, decoding of the image.
\* The frame of the handler once the form is accepted or refused.
MlAuthenticateRequest(image, known_face_embeddings, threshold, origin) ==
    IF ~KnownFacesValid(known_face_embeddings) \/ image.kind = "undecodable"
    THEN [IdleCall EXCEPT !.pc = "done", !.origin = origin,
                          !.form = [image |-> image.kind, known |-> known_face_embeddings.kind,
                                    threshold |-> threshold.given],
                          !.known = known_face_embeddings.dict,
                          !.resp = HttpError(400)]
    ELSE [IdleCall EXCEPT !.pc = "auth_call", !.origin = origin,
                          !.form = [image |-> image.kind, known |-> known_face_embeddings.kind,
                                    threshold |-> threshold.given],
                          !.image = image.image,
                          !.known = known_face_embeddings.dict,
                          !.threshold = FormThreshold(threshold)]

\* The four asserts of lines 148-151, and the same with assertions disabled.
PreconditionsUnchecked(args) == TRUE

PreconditionsHold(args) == args.image = "array" /\ args.known = "dict"

\* A failed assert leaves authenticate before its try block.
RaiseAssertion(c) ==
    [c EXCEPT !.pc = "done", !.raisedAt = "assert",
              !.ret = [NoRet EXCEPT !.kind = "raise", !.exc = "AssertionError"]]

\* authenticate, lines 148-156: the preconditions, then the dictionary
\* becomes two parallel lists.
AuthenticateEnter(r) ==
    /\ call[r].pc = "auth_call"
    /\ LET c == call[r] IN
       call' = [call EXCEPT ![r] =
        IF ~PreconditionsHold(c.args)
        THEN RaiseAssertion(c)
        ELSE IF ConversionRaises(c.known)
        THEN RaiseInAuthenticate(c, "convert")
        ELSE [c EXCEPT !.pc = "liveness",
                !.user_names = [i \in 1..Len(c.known) |-> c.known[i].name],
                !.known_face_embeddings = [i \in 1..Len(c.known) |-> c.known[i].embedding]]]
    /\ UNCHANGED <<is_authenticated, store, dbreq, emb, dimension, userVars, ereq, dbinit>>

\* get_spoof_prediction, lines 81-93.
GetSpoofPrediction(r) ==
    /\ call[r].pc = "liveness"
    /\ LET c == call[r]
           ran == [c EXCEPT !.livenessRuns = @ + 1,
                            !.preprocessed_frame = PreprocessImage(ReverseChannels(c.image))]
       IN
       call' = [call EXCEPT ![r] =
        IF c.image.output = "raise"
        THEN RaiseInAuthenticate(ran, "liveness")
        ELSE [ran EXCEPT !.pc = "decide",
                !.prediction = ArgMax(c.image.output),
                !.frame_rgb = ReverseChannels(c.image)]]
    /\ UNCHANGED <<is_authenticated, store, dbreq, emb, dimension, userVars, ereq, dbinit>>

\* Line 160 / line 164: the value the branch writes to self.is_authenticated.
RealBranchFieldKept(old) == old

RealBranchField(old) == TRUE

SpoofBranchField(old) == FALSE

\* Line 162: return self.is_authenticated, user_name
RealBranchReturn(field, user_name) ==
    [kind |-> "return", is_authenticated |-> field, user_name |-> user_name, exc |-> "none"]

\* Line 165: return False, None
SpoofBranchReturn ==
    [kind |-> "return", is_authenticated |-> FALSE, user_name |-> None, exc |-> "none"]

\* Line 159: if prediction == 1
IsRealAny(prediction) == TRUE

IsRealInverted(prediction) == prediction = 0

IsReal(prediction) == prediction = 1

\* authenticate, lines 159-165, and the endpoint's lines 191-194.  No await
\* separates the write of the field from the read that returns it.
AuthenticateDecide(r) ==
    /\ call[r].pc = "decide"
    /\ LET c == call[r]
           m == GetUserName(c.frame_rgb, c.known_face_embeddings, c.user_names, c.threshold)
           field == IF IsReal(c.prediction)
                    THEN RealBranchField(is_authenticated)
                    ELSE SpoofBranchField(is_authenticated)
           ret == IF IsReal(c.prediction)
                  THEN RealBranchReturn(field, m.name)
                  ELSE SpoofBranchReturn
       IN
       /\ is_authenticated' = field
       /\ call' = [call EXCEPT ![r] =
            IF IsReal(c.prediction) /\ m.propagates
            THEN RaiseInAuthenticate([c EXCEPT !.matcherCalls = @ + 1], "match")
            ELSE
            [c EXCEPT !.pc = "done",
                !.matcherCalls = IF IsReal(c.prediction) THEN @ + 1 ELSE @,
                !.raisedAt = IF IsReal(c.prediction) /\ m.raised THEN "match" ELSE @,
                !.ret = ret,
                !.resp = AuthenticateResponse(ret.is_authenticated, ret.user_name)]]
    /\ UNCHANGED <<store, dbreq, emb, dimension, userVars, ereq, dbinit>>

\* The response leaves the service; the handler's frame is gone.
MlRespond(r) ==
    /\ call[r].pc = "done"
    /\ call[r].origin = 0
    /\ call' = [call EXCEPT ![r] = IdleCall]
    /\ UNCHANGED <<is_authenticated, store, dbreq, emb, dimension, userVars, ereq, dbinit>>

NoOtherCall(r) == \A q \in Calls \ {r} : call[q].pc = "idle"

\* A new handler takes the first free slot (the slots are interchangeable).
FirstFree(r) == call[r].pc = "idle" /\ \A q \in 1..(r - 1) : call[q].pc # "idle"

\* A client of the ml-model service posts a form.
ClientRequest(r) ==
    /\ FirstFree(r)
    /\ \E image \in ImageForms, known \in KnownForms, threshold \in ThresholdForms :
        call' = [call EXCEPT ![r] = MlAuthenticateRequest(image, known, threshold, 0)]
    /\ UNCHANGED <<is_authenticated, store, dbreq, emb, dimension, userVars, ereq, dbinit>>

\* A few requests that differ in the liveness verdict and in the matcher's answer.
ConcImageForms ==
    {f \in ImageForms :
        /\ f.kind = "image"
        /\ f.image.output # "raise"
        /\ f.image.detect = "ok"
        /\ f.image.faces \in {<<>>, << <<0, 0>> >>}}

ConcKnownForms ==
    {[kind |-> "dict", dict |-> << [name |-> n, embedding |-> ListEmbedding(<<0, 0>>)] >>] :
        n \in {"alice", "bob"}}

\* The arguments of a call of FaceAuthenticator.authenticate made by code
\* other than the endpoint: None, an object of another type, or a value of
\* the expected type.
AuthImageArgs ==
    {[kind |-> "none", image |-> NoImage], [kind |-> "object", image |-> NoImage]}
    \cup {[kind |-> "array", image |-> f.image] : f \in ConcImageForms}

AuthKnownArgs ==
    {[kind |-> "none", dict |-> <<>>], [kind |-> "object", dict |-> <<>>],
     [kind |-> "dict", dict |-> <<>>]}
    \cup {[kind |-> "dict", dict |-> f.dict] : f \in ConcKnownForms}

\* await authenticator.authenticate(image, known_face_embedding_dict)
DirectCall(r) ==
    /\ FirstFree(r)
    /\ \E image \in AuthImageArgs, known \in AuthKnownArgs :
        call' = [call EXCEPT ![r] =
            [IdleCall EXCEPT !.pc = "auth_call", !.origin = 2,
                             !.args = [image |-> image.kind, known |-> known.kind],
                             !.image = image.image,
                             !.known = known.dict,
                             !.threshold = DefaultThreshold]]
    /\ UNCHANGED <<is_authenticated, store, dbreq, emb, dimension, userVars, ereq, dbinit>>

\* The caller has the result or the exception; the frame is gone.
DirectReturn(r) ==
    /\ call[r].pc = "done"
    /\ call[r].origin = 2
    /\ call' = [call EXCEPT ![r] = IdleCall]
    /\ UNCHANGED <<is_authenticated, store, dbreq, emb, dimension, userVars, ereq, dbinit>>

----------------------------------------------------------------------------
(* ml-model/generate_embedding.py *)

MaxEmbedCalls == 2      \* calls of generate_face_embedding kept in emb

\* The arguments generate_face_embedding is called with: None, an object
\* that is no array, or an array.  An array has a shape; an image is an array
\* of shape (H, W, 3) (face_encodings raises on an array of another rank, and
\* on pixels it cannot read).
ImageShape == "HxWx3"

EmbedArrays ==
    {[kind |-> "array", shape |-> ImageShape, image |-> i] :
        i \in {j \in Images : j.output = "logits_real"}}

\* np.array([1, 2, 3]): an array of rank 1.
WrongRankArrays == {[kind |-> "array", shape |-> "N", image |-> NoImage]}

EmbedInputs ==
    {[kind |-> "none", shape |-> "none", image |-> NoImage],
     [kind |-> "object", shape |-> "none", image |-> NoImage]}
    \cup EmbedArrays \cup WrongRankArrays

EmbedRaise(exc) == [kind |-> "raise", exc |-> exc, found |-> FALSE, value |-> <<>>]
EmbedNone == [kind |-> "return", exc |-> "none", found |-> FALSE, value |-> <<>>]
EmbedFound(encoding) == [kind |-> "return", exc |-> "none", found |-> TRUE, value |-> encoding]

\* Lines 21-24: which of the encodings is returned.
LastEncoding(face_encodings) == face_encodings[Len(face_encodings)]

FirstEncoding(face_encodings) == face_encodings[1]

\* face_recognition.face_encodings(image, ...) raises (line 19).
FaceEncodingsRaises(image) == image.shape # ImageShape \/ image.image.detect = "raise"

\* generate_face_embedding without the checks of lines 13-16.
GenerateFaceEmbeddingUnchecked(image) ==
    IF image.kind # "array" THEN EmbedNone
    ELSE IF FaceEncodingsRaises(image) THEN EmbedNone
    ELSE IF Len(image.image.faces) = 0 THEN EmbedNone
    ELSE EmbedFound(FirstEncoding(image.image.faces))

\* generate_face_embedding(image), lines 13-27.
GenerateFaceEmbedding(image) ==
    IF image.kind = "none" THEN EmbedRaise("ValueError")
    ELSE IF image.kind # "array" THEN EmbedRaise("ValueError")
    ELSE IF FaceEncodingsRaises(image) THEN EmbedNone
    ELSE IF Len(image.image.faces) = 0 THEN EmbedNone
    ELSE EmbedFound(FirstEncoding(image.image.faces))

EmbedCall ==
    /\ Len(emb) < MaxEmbedCalls
    /\ \E image \in EmbedInputs :
        emb' = Append(emb, [image |-> image, result |-> GenerateFaceEmbedding(image)])
    /\ UNCHANGED <<is_authenticated, call, store, dbreq, dimension, userVars, ereq, dbinit>>

----------------------------------------------------------------------------
(* The Database service: the store and /authenticate *)

IdleDbReq ==
    [pc |-> "idle", image |-> [kind |-> "undecodable", image |-> NoImage],
     threshold |-> 0, thresholdGiven |-> FALSE, known |-> <<>>, mlPosts |-> 0,
     mlStatus |-> 0, livenessFailed |-> FALSE,
     resp |-> NoResp]

StoredNames == {store[i].name : i \in 1..Len(store)}

\* The collection keeps embeddings in single precision; the even integers
\* stand for the values single precision represents.
Float32(x) == 2 * ((x + 1) \div 2)

ToFloat32(embedding) ==
    [embedding EXCEPT !.v = [i \in 1..Len(embedding.v) |-> Float32(embedding.v[i])]]

NoneEmbedding == [kind |-> "none", v |-> <<>>]
EmptyListEmbedding == [kind |-> "list", v |-> <<>>]

\* Line 54: embedding is None or not isinstance(embedding, list) or len(embedding) == 0
InsertRaises(embedding) ==
    \/ embedding.kind \in {"none", "str"}
    \/ embedding.kind = "list" /\ embedding.v = <<>>

\* Lines 61-64: the id is in the collection.
UserExistsNever(user_name) == FALSE

UserExists(user_name) == user_name \in StoredNames

\* collection.add (line 67) takes a flat list of numbers of the collection's
\* dimensionality; it raises for another list, and line 75 catches that.
CollectionAddRaises(embedding) ==
    \/ embedding.kind # "list"
    \/ dimension # 0 /\ Len(embedding.v) # dimension

\* Database.insert, lines 57-77: the value returned.
InsertReturns(user_name, embedding) ==
    ~UserExists(user_name) /\ ~CollectionAddRaises(embedding)

\* Database.insert, lines 57-77: the collection afterwards.
Insert(user_name, embedding) ==
    IF InsertReturns(user_name, embedding)
    THEN Append(store, [name |-> user_name, embedding |-> ToFloat32(embedding)])
    ELSE store

\* The collection without the entry of the id (collection.delete, line 139).
RECURSIVE Without(_, _)
Without(entries, user_name) ==
    IF entries = <<>> THEN <<>>
    ELSE IF Head(entries).name = user_name THEN Without(Tail(entries), user_name)
    ELSE <<Head(entries)>> \o Without(Tail(entries), user_name)

\* Database.delete_user, lines 130-144: the value returned without the check
\* of lines 134-137, and with it.
DeleteUserReturnsAlways(user_name) == TRUE

DeleteUserReturns(user_name) == UserExists(user_name)

\* Line 139 left out, and as it is.
DeleteUserKeeps(user_name) == store

DeleteUser(user_name) == Without(store, user_name)

\* Database.get_registered_users, lines 112-123: results['documents'] or [].
GetRegisteredUsers == [i \in 1..Len(store) |-> store[i].name]

\* The record of a call of a method of Database.
NoResult == [kind |-> "none", exc |-> "none", ok |-> FALSE, names |-> <<>>, dict |-> <<>>]
Returns(ok) == [NoResult EXCEPT !.kind = "return", !.ok = ok]
NoDbOp ==
    [name |-> "none", user_name |-> <<>>, embedding |-> NoneEmbedding,
     before |-> <<>>, result |-> NoResult]

\* The last successful insert or delete_user of each name.
Logged(user_name, op, embedding) ==
    {h \in hist : h.name # user_name}
        \cup {[name |-> user_name, op |-> op, embedding |-> embedding]}

\* await database_connector.insert(user_name, embedding), for a non-empty list.
CallInsert(user_name, embedding) ==
    /\ store' = Insert(user_name, embedding)
    /\ dimension' = IF InsertReturns(user_name, embedding) /\ dimension = 0
                    THEN Len(embedding.v) ELSE dimension
    /\ hist' = IF InsertReturns(user_name, embedding)
               THEN Logged(user_name, "insert", embedding) ELSE hist
    /\ dbop' = [name |-> "insert", user_name |-> user_name, embedding |-> embedding,
                before |-> store, result |-> Returns(InsertReturns(user_name, embedding))]

\* await database_connector.delete_user(user_name)
CallDeleteUser(user_name) ==
    /\ store' = IF DeleteUserReturns(user_name) THEN DeleteUser(user_name) ELSE store
    /\ hist' = IF DeleteUserReturns(user_name)
               THEN Logged(user_name, "delete_user", NoneEmbedding) ELSE hist
    /\ dbop' = [NoDbOp EXCEPT !.name = "delete_user", !.user_name = user_name,
                              !.before = store,
                              !.result = Returns(DeleteUserReturns(user_name))]
    /\ UNCHANGED dimension

\* Users are registered while no /authenticate request is in progress.
DbInsert ==
    /\ dbreq.pc = "idle"
    /\ Len(store) < MaxUsers
    /\ \E user_name \in Names, embedding \in GoodEmbeddings :
        CallInsert(user_name, embedding)
    /\ UNCHANGED <<is_authenticated, call, dbreq, emb, ureq, ereq, dbinit>>

\* Database.fetch_all, lines 79-105: name -> embedding.tolist()
FetchAll == store

\* json.dumps of the dictionary, as the form field the ml-model service parses.
JsonDumps(dict) == [kind |-> "dict", dict |-> dict]

\* threshold: float = Form(0.5)
DbFormThreshold(threshold) ==
    IF threshold.given THEN threshold.value ELSE DbDefaultThreshold

\* Lines 249-262: what the Database service answers for the ml-model's response.
DbAnswer(response) ==
    IF response.status # 200
    THEN [status |-> 200, is_authenticated |-> FALSE, user_name |-> None]
    ELSE [status |-> 200, is_authenticated |-> response.is_authenticated,
          user_name |-> response.user_name]

\* Line 230: if not known_face_embeddings_dict
NoUsersFoundNever(known_face_embeddings_dict) == FALSE

NoUsersFound(known_face_embeddings_dict) == known_face_embeddings_dict = <<>>

\* Database /authenticate, lines 225-247: up to the post to the ml-model
\* service (mlPosts counts the posts of the request).
DbAuthenticate ==
    /\ dbreq.pc = "idle"
    /\ \E image \in ImageForms, threshold \in ThresholdForms :
        dbreq' = IF NoUsersFound(FetchAll)
                 THEN [IdleDbReq EXCEPT !.pc = "done", !.resp = HttpError(404)]
                 ELSE [IdleDbReq EXCEPT !.pc = "sent", !.image = image,
                            !.threshold = DbFormThreshold(threshold),
                            !.thresholdGiven = threshold.given,
                            !.known = FetchAll,
                            !.mlPosts = 1]
    /\ UNCHANGED <<is_authenticated, call, store, emb, dimension, userVars, ereq, dbinit>>

\* The post reaches the ml-model service, whose handler starts.
MlDeliver(r) ==
    /\ dbreq.pc = "sent"
    /\ FirstFree(r)
    /\ call' = [call EXCEPT ![r] =
            MlAuthenticateRequest(dbreq.image, JsonDumps(dbreq.known),
                                  GivenThreshold(dbreq.threshold), 1)]
    /\ dbreq' = [dbreq EXCEPT !.pc = "waiting"]
    /\ UNCHANGED <<is_authenticated, store, emb, dimension, userVars, ereq, dbinit>>

\* Lines 249-262: the response of the ml-model service arrives.
DbReceive(r) ==
    /\ dbreq.pc = "waiting"
    /\ call[r].pc = "done"
    /\ call[r].origin = 1
    /\ dbreq' = [dbreq EXCEPT !.pc = "done",
                    !.mlStatus = call[r].resp.status,
                    !.livenessFailed = (call[r].raisedAt = "liveness"),
                    !.resp = DbAnswer(call[r].resp)]
    /\ call' = [call EXCEPT ![r] = IdleCall]
    /\ UNCHANGED <<is_authenticated, store, emb, dimension, userVars, ereq, dbinit>>

\* Lines 264-274: httpx.TimeoutException or httpx.RequestError, before the
\* post reaches the ml-model service, or while its response is awaited (the
\* response of the handler is then dropped).
DbTransportError(r) ==
    /\ \/ dbreq.pc = "sent" /\ FirstFree(r) /\ NoOtherCall(r)
       \/ dbreq.pc = "waiting" /\ call[r].pc = "done" /\ call[r].origin = 1
    /\ dbreq' = [dbreq EXCEPT !.pc = "done",
                    !.resp = [status |-> 200, is_authenticated |-> FALSE, user_name |-> None]]
    /\ call' = [call EXCEPT ![r] = IdleCall]
    /\ UNCHANGED <<is_authenticated, store, emb, dimension, userVars, ereq, dbinit>>

DbRespond ==
    /\ dbreq.pc = "done"
    /\ dbreq' = IdleDbReq
    /\ UNCHANGED <<is_authenticated, call, store, emb, dimension, userVars, ereq, dbinit>>

\* The embeddings a caller may pass to Database.insert: None, a string, an
\* empty list, a nested list, lists of numbers of two lengths.
InsertEmbeddings ==
    {NoneEmbedding, NotAListEmbedding, EmptyListEmbedding, RaggedEmbedding,
     WrongLenEmbedding, ListEmbedding(<<0, 6>>), ListEmbedding(<<8, 0>>),
     ListEmbedding(<<1, 6>>)}

Raises(exc) == [NoResult EXCEPT !.kind = "raise", !.exc = exc]

\* await database.insert(user_name, embedding)
StoreInsert ==
    \E user_name \in Names, embedding \in InsertEmbeddings :
        IF InsertRaises(embedding)
        THEN /\ dbop' = [name |-> "insert", user_name |-> user_name,
                         embedding |-> embedding, before |-> store,
                         result |-> Raises("ValueError")]
             /\ UNCHANGED <<is_authenticated, call, store, dbreq, emb, dimension, ureq, hist, ereq, dbinit>>
        ELSE /\ CallInsert(user_name, embedding)
             /\ UNCHANGED <<is_authenticated, call, dbreq, emb, ureq, ereq, dbinit>>

\* await database.delete_user(user_name)
StoreDeleteUser ==
    /\ \E user_name \in Names : CallDeleteUser(user_name)
    /\ UNCHANGED <<is_authenticated, call, dbreq, emb, ureq, ereq, dbinit>>

\* await database.get_registered_users()
StoreGetRegisteredUsers ==
    /\ dbop' = [NoDbOp EXCEPT !.name = "get_registered_users", !.before = store,
                    !.result = [Returns(TRUE) EXCEPT !.names = GetRegisteredUsers]]
    /\ UNCHANGED <<is_authenticated, call, store, dbreq, emb, dimension, ureq, hist, ereq, dbinit>>

\* await database.fetch_all()
StoreFetchAll ==
    /\ dbop' = [NoDbOp EXCEPT !.name = "fetch_all", !.before = store,
                    !.result = [Returns(TRUE) EXCEPT !.dict = FetchAll]]
    /\ UNCHANGED <<is_authenticated, call, store, dbreq, emb, dimension, ureq, hist, ereq, dbinit>>

----------------------------------------------------------------------------
(* The Database service: /addUser, /deleteUser, /getAllUsers *)

\* A user name as a client sends it: a string of characters (lowercase and
\* uppercase letters, blanks): empty, blank, with blanks at either end or
\* inside, in either case.
Chars == {"a", "A", " "}

RawNames ==
    {<<>>, <<" ">>, <<" ", " ">>,
     <<"a">>, <<"A">>, <<" ", "A">>, <<"a", " ">>, <<"A", "a">>,
     <<"a", " ", "A">>, <<" ", "a", " ">>}

\* str.strip() and str.lower()
RECURSIVE LStrip(_)
LStrip(str) ==
    IF str # <<>> /\ Head(str) = " " THEN LStrip(Tail(str)) ELSE str

RECURSIVE RStrip(_)
RStrip(str) ==
    IF str # <<>> /\ str[Len(str)] = " " THEN RStrip(SubSeq(str, 1, Len(str) - 1)) ELSE str

Strip(str) == RStrip(LStrip(str))

Lower(str) == [i \in 1..Len(str) |-> IF str[i] = "A" THEN "a" ELSE str[i]]

NameRejected == [kind |-> "raise", status |-> 400, value |-> <<>>]
NameAccepted(user_name) == [kind |-> "return", status |-> 0, value |-> user_name]

\* validate_user_name without strip() in line 87, and as it is (lines 80-87).
ValidateUserNameUnstripped(user_name) ==
    IF user_name = <<>> \/ Strip(user_name) = <<>>
    THEN NameRejected
    ELSE NameAccepted(Lower(user_name))

ValidateUserName(user_name) ==
    IF user_name = <<>> \/ Strip(user_name) = <<>>
    THEN NameRejected
    ELSE NameAccepted(Lower(Strip(user_name)))

\* An uploaded file: its content type and what its bytes decode to.
ContentTypes == {"image/jpeg", "text/plain", ""}

UploadImages ==
    {i \in Images :
        /\ i.output = "logits_real"
        /\ i.detect = "raise" \/ i.faces \in {<<>>, << <<0, 6>> >>, << <<8, 0>>, <<0, 0>> >>}}

UploadContents ==
    {[kind |-> "undecodable", image |-> NoImage]}
    \cup {[kind |-> "image", image |-> i] : i \in UploadImages}

Uploads == [content_type : ContentTypes, contents : UploadContents]

NoUpload == [content_type |-> "", contents |-> [kind |-> "undecodable", image |-> NoImage]]

\* content_type and content_type.startswith('image/')
IsImageType(content_type) == content_type = "image/jpeg"

\* The ml-model service's /getEmbedding (ml-model/main.py lines 93-146):
\* its answer to the post of an upload and a user name.
MlEmbeddingResponse(status, is_saved, embedding) ==
    [status |-> status, is_saved |-> is_saved, embedding |-> embedding]

\* Image.open(BytesIO(contents)) raises for bytes that are no image, the
\* empty file included (ml-model/main.py line 115).
ImageOpenRaises(contents) == contents.kind # "image"

MlGetEmbedding(image, user_name) ==
    IF ~IsImageType(image.content_type) \/ ValidateUserName(user_name).kind = "raise"
    THEN MlEmbeddingResponse(400, FALSE, NoneEmbedding)
    ELSE IF ImageOpenRaises(image.contents)
    THEN MlEmbeddingResponse(500, FALSE, NoneEmbedding)
    ELSE LET embeddings ==
                GenerateFaceEmbedding([kind |-> "array", shape |-> ImageShape,
                                       image |-> image.contents.image])
         IN
         IF embeddings.kind = "raise" THEN MlEmbeddingResponse(500, FALSE, NoneEmbedding)
         ELSE IF ~embeddings.found THEN MlEmbeddingResponse(200, FALSE, NoneEmbedding)
         ELSE MlEmbeddingResponse(200, TRUE, ListEmbedding(embeddings.value))

\* What becomes of the post to the ml-model service.
Transports == {"answered", "timeout", "unreachable"}

\* The answers of the Database service's user endpoints.
NoUserResp ==
    [status |-> 0, is_saved |-> FALSE, is_deleted |-> FALSE, user_name |-> <<>>,
     message |-> "", user_names |-> <<>>]

UserHttpError(code) == [NoUserResp EXCEPT !.status = code]

AddUserResponse(is_saved, user_name, message) ==
    [NoUserResp EXCEPT !.status = 200, !.is_saved = is_saved,
                       !.user_name = user_name, !.message = message]

DeleteUserResponse(is_deleted, user_name) ==
    [NoUserResp EXCEPT !.status = 200, !.is_deleted = is_deleted,
                       !.user_name = user_name,
                       !.message = IF is_deleted THEN "deleted successfully" ELSE "not found"]

FetchUserNamesResponse(user_names) ==
    [NoUserResp EXCEPT !.status = 200, !.user_names = user_names]

\* The frame of a handler; before is the store the handler started on,
\* mlPosts and insertCalls count what it has called.
IdleUserReq ==
    [pc |-> "idle", endpoint |-> "none", before |-> <<>>,
     raw |-> <<>>, validated |-> NameRejected,
     user_name |-> <<>>, image |-> NoUpload, existed |-> FALSE,
     mlPosts |-> 0, transport |-> "none", mlStatus |-> 0,
     insertCalls |-> 0, inserted |-> FALSE, resp |-> NoUserResp]

UserReqs == 1..NumUserRequests

NoOtherUserReq(a) == \A b \in UserReqs \ {a} : ureq[b].pc = "idle"

FirstFreeUser(a) == ureq[a].pc = "idle" /\ \A b \in 1..(a - 1) : ureq[b].pc # "idle"

\* Line 132: user_name in all_users, and the check left out.
AlreadyRegisteredNever(user_name, all_users) == FALSE

AlreadyRegistered(user_name, all_users) ==
    \E i \in 1..Len(all_users) : all_users[i] = user_name

\* /addUser, lines 116-146: up to the post to the ml-model service.
AddUserRequest(raw, image) ==
    LET v == ValidateUserName(raw)
        f == [IdleUserReq EXCEPT !.endpoint = "addUser", !.before = store,
                                 !.raw = raw, !.validated = v,
                                 !.user_name = v.value, !.image = image]
    IN
    IF v.kind = "raise"
    THEN [f EXCEPT !.pc = "done", !.resp = UserHttpError(400)]
    ELSE IF ~IsImageType(image.content_type)
    THEN [f EXCEPT !.pc = "done",
                   !.resp = AddUserResponse(FALSE, v.value, "Invalid file type")]
    ELSE IF AlreadyRegistered(v.value, GetRegisteredUsers)
    THEN [f EXCEPT !.pc = "done", !.existed = TRUE,
                   !.resp = AddUserResponse(FALSE, v.value, "already exists")]
    ELSE [f EXCEPT !.pc = "post", !.mlPosts = 1]

AddUserStart(a) ==
    /\ FirstFreeUser(a)
    /\ \E raw \in RawNames, image \in Uploads :
        ureq' = [ureq EXCEPT ![a] = AddUserRequest(raw, image)]
    /\ UNCHANGED <<is_authenticated, call, store, dbreq, emb, dimension, dbop, hist, ereq, dbinit>>

\* Lines 163-167: ml_response.get("is_saved") and ml_response.get("embedding"),
\* then isinstance(embedding, list) and len(embedding) > 0.
HasEmbedding(ml_response) ==
    ml_response.is_saved /\ ml_response.embedding.kind # "none"
        /\ ~(ml_response.embedding.kind = "list" /\ ml_response.embedding.v = <<>>)

\* Lines 177-188: the answer after insert returned.
SavedResponse(is_saved, user_name) ==
    IF is_saved
    THEN AddUserResponse(TRUE, user_name, "added successfully")
    ELSE AddUserResponse(FALSE, user_name, "Failed to save user")

\* Lines 152-194 without an insert: the answer to a failed or empty
\* response of the ml-model service (first with is_saved set all the same).
NotSavedResponseSaved(f, ml_response) ==
    AddUserResponse(TRUE, f.user_name, "added successfully")

NotSavedResponse(f, ml_response) ==
    IF ml_response.status # 200
    THEN AddUserResponse(FALSE, f.user_name, "ML service error")
    ELSE IF ~HasEmbedding(ml_response)
    THEN AddUserResponse(FALSE, f.user_name, "Failed to generate embeddings")
    ELSE AddUserResponse(FALSE, f.user_name, "Invalid embedding format")

\* /addUser, lines 146-207: the post ends (an answer, a timeout, no
\* connection) and the handler runs to its return.
AddUserReceive(a) ==
    /\ ureq[a].pc = "post"
    /\ \E transport \in Transports :
        LET f == [ureq[a] EXCEPT !.pc = "done", !.transport = transport]
            ml_response == MlGetEmbedding(f.image, f.user_name)
        IN
        IF transport = "timeout"
        THEN /\ ureq' = [ureq EXCEPT ![a] =
                    [f EXCEPT !.resp = AddUserResponse(FALSE, f.user_name, "Request timeout")]]
             /\ UNCHANGED <<store, dimension, dbop, hist>>
        ELSE IF transport = "unreachable"
        THEN /\ ureq' = [ureq EXCEPT ![a] =
                    [f EXCEPT !.resp = AddUserResponse(FALSE, f.user_name, "ML service unavailable")]]
             /\ UNCHANGED <<store, dimension, dbop, hist>>
        ELSE IF ml_response.status = 200 /\ HasEmbedding(ml_response)
                /\ ml_response.embedding.kind = "list"
        THEN /\ CallInsert(f.user_name, ml_response.embedding)
             /\ ureq' = [ureq EXCEPT ![a] =
                    [f EXCEPT !.mlStatus = 200, !.insertCalls = 1,
                              !.inserted = InsertReturns(f.user_name, ml_response.embedding),
                              !.resp = SavedResponse(
                                    InsertReturns(f.user_name, ml_response.embedding),
                                    f.user_name)]]
        ELSE /\ ureq' = [ureq EXCEPT ![a] =
                    [f EXCEPT !.mlStatus = ml_response.status,
                              !.resp = NotSavedResponse(f, ml_response)]]
             /\ UNCHANGED <<store, dimension, dbop, hist>>
    /\ UNCHANGED <<is_authenticated, call, dbreq, emb, ereq, dbinit>>

\* /deleteUser, lines 307-323.  The HTTPException of validate_user_name is
\* raised inside the try and caught by its except Exception.
DeleteUserEndpoint(a) ==
    /\ FirstFreeUser(a)
    /\ \E raw \in RawNames :
        LET v == ValidateUserName(raw)
            f == [IdleUserReq EXCEPT !.pc = "done", !.endpoint = "deleteUser",
                                     !.before = store, !.raw = raw, !.validated = v, !.user_name = v.value]
        IN
        IF v.kind = "raise"
        THEN /\ ureq' = [ureq EXCEPT ![a] = [f EXCEPT !.resp = UserHttpError(500)]]
             /\ UNCHANGED <<store, dimension, dbop, hist>>
        ELSE /\ CallDeleteUser(v.value)
             /\ ureq' = [ureq EXCEPT ![a] =
                    [f EXCEPT !.resp = DeleteUserResponse(DeleteUserReturns(v.value), v.value)]]
    /\ UNCHANGED <<is_authenticated, call, dbreq, emb, ereq, dbinit>>

\* /getAllUsers, lines 102-105.
GetAllUsersEndpoint(a) ==
    /\ FirstFreeUser(a)
    /\ ureq' = [ureq EXCEPT ![a] =
            [IdleUserReq EXCEPT !.pc = "done", !.endpoint = "getAllUsers",
                                !.before = store,
                                !.resp = FetchUserNamesResponse(GetRegisteredUsers)]]
    /\ UNCHANGED <<is_authenticated, call, store, dbreq, emb, dimension, dbop, hist, ereq, dbinit>>

\* The response leaves the service; the handler's frame is gone.
UserRespond(a) ==
    /\ ureq[a].pc = "done"
    /\ ureq' = [ureq EXCEPT ![a] = IdleUserReq]
    /\ UNCHANGED <<is_authenticated, call, store, dbreq, emb, dimension, dbop, hist, ereq, dbinit>>

----------------------------------------------------------------------------
(* The ml-model service: /getEmbedding *)

\* The files a client of the ml-model service uploads: those above, and the
\* empty file.
MlUploads ==
    Uploads \cup
    [content_type : ContentTypes, contents : {[kind |-> "empty", image |-> NoImage]}]

\* The frame of the handler; opened says that Image.open returned, embedCalls
\* counts the calls of generate_face_embedding.
IdleEmbedReq ==
    [pc |-> "idle", image |-> NoUpload, raw |-> <<>>,
     opened |-> FALSE, embedCalls |-> 0,
     resp |-> MlEmbeddingResponse(0, FALSE, NoneEmbedding)]

\* add_user, ml-model/main.py lines 99-146.  The handler's one await
\* (image.read()) does not suspend it.
MlEmbeddingRequest ==
    /\ ereq.pc = "idle"
    /\ \E image \in MlUploads, user_name \in RawNames :
        LET valid == /\ IsImageType(image.content_type)
                     /\ ValidateUserName(user_name).kind = "return"
            opened == valid /\ ~ImageOpenRaises(image.contents)
        IN
        ereq' = [IdleEmbedReq EXCEPT !.pc = "done", !.image = image, !.raw = user_name,
                    !.opened = opened,
                    !.embedCalls = IF opened THEN 1 ELSE 0,
                    !.resp = MlGetEmbedding(image, user_name)]
    /\ UNCHANGED <<is_authenticated, call, store, dbreq, emb, dimension, userVars, dbinit>>

\* The response leaves the service; the handler's frame is gone.
MlEmbeddingRespond ==
    /\ ereq.pc = "done"
    /\ ereq' = IdleEmbedReq
    /\ UNCHANGED <<is_authenticated, call, store, dbreq, emb, dimension, userVars, dbinit>>

----------------------------------------------------------------------------
(* Database.__init__ (Database/database.py lines 7-29) *)

MaxRetries == 3     \* max_retries = 3
RetryDelay == 1     \* retry_delay = 1

\* The frame of __init__ at its first line: the loop variable, retry_delay,
\* whether self.client and self.collection are set, and what it has called
\* (clientCalls: chromadb.PersistentClient; sleeps: the arguments of
\* time.sleep, in order; collectionInits: _initialize_collection).
NewDatabase ==
    [pc |-> "create", attempt |-> 0, retry_delay |-> RetryDelay,
     client |-> FALSE, collection |-> FALSE,
     clientCalls |-> 0, sleeps |-> <<>>, collectionInits |-> 0,
     raised |-> "none"]

\* The frame once __init__ has returned without a failure.
Constructed ==
    [NewDatabase EXCEPT !.pc = "ready", !.client = TRUE, !.collection = TRUE,
                        !.clientCalls = 1, !.collectionInits = 1]

\* Line 20: attempt < max_retries - 1
CanRetry(attempt) == attempt < MaxRetries - 1

\* Line 23: retry_delay *= 2, and the same delay kept.
NextDelaySame(retry_delay) == retry_delay

NextDelay(retry_delay) == retry_delay * 2

\* Lines 15-25: one iteration of the loop.  The creation of the client
\* succeeds (break) or raises; then the handler sleeps and goes on, or raises
\* RuntimeError on the last attempt.
CreateClient ==
    /\ dbinit.pc = "create"
    /\ dbinit.attempt < MaxRetries
    /\ \E created \in BOOLEAN :
        LET d == [dbinit EXCEPT !.clientCalls = @ + 1] IN
        dbinit' =
            IF created
            THEN [d EXCEPT !.pc = "collection", !.client = TRUE]
            ELSE IF CanRetry(d.attempt)
            THEN [d EXCEPT !.sleeps = Append(@, d.retry_delay),
                           !.retry_delay = NextDelay(@),
                           !.attempt = @ + 1]
            ELSE [d EXCEPT !.pc = "failed", !.raised = "RuntimeError"]
    /\ UNCHANGED <<is_authenticated, call, store, dbreq, emb, dimension, userVars, ereq>>

\* Lines 27-29 and _initialize_collection, lines 31-47: the collection is
\* created or fetched, or RuntimeError is raised.
InitializeCollection ==
    /\ dbinit.pc = "collection"
    /\ \E initialized \in BOOLEAN :
        LET d == [dbinit EXCEPT !.collectionInits = @ + 1] IN
        dbinit' =
            IF initialized
            THEN [d EXCEPT !.pc = "ready", !.collection = TRUE]
            ELSE [d EXCEPT !.pc = "failed", !.raised = "RuntimeError"]
    /\ UNCHANGED <<is_authenticated, call, store, dbreq, emb, dimension, userVars, ereq>>

----------------------------------------------------------------------------
(* Specifications *)

Init ==
    /\ is_authenticated = FALSE
    /\ call = [r \in Calls |-> IdleCall]
    /\ store = <<>>
    /\ dbreq = IdleDbReq
    /\ emb = <<>>
    /\ dimension = 0
    /\ ureq = [a \in UserReqs |-> IdleUserReq]
    /\ dbop = NoDbOp
    /\ hist = {}
    /\ ereq = IdleEmbedReq
    /\ dbinit = Constructed

\* The ml-model service as its event loop runs it: none of the awaits of its
\* handlers suspends, so one handler runs to its end before the next starts.
Next ==
    \E r \in Calls :
        \/ NoOtherCall(r) /\ ClientRequest(r)
        \/ AuthenticateEnter(r)
        \/ GetSpoofPrediction(r)
        \/ AuthenticateDecide(r)
        \/ MlRespond(r)

Spec == Init /\ [][Next]_vars

\* The ml-model service with handlers interleaved at every await
\* (main.py line 185, authenticate.py line 158), on a few requests that
\* differ in the liveness verdict and in the matcher's answer.
ConcClientRequest(r) ==
    /\ FirstFree(r)
    /\ \E image \in ConcImageForms, known \in ConcKnownForms :
        call' = [call EXCEPT ![r] = MlAuthenticateRequest(image, known, NoThreshold, 0)]
    /\ UNCHANGED <<is_authenticated, store, dbreq, emb, dimension, userVars, ereq, dbinit>>

NextConc ==
    \E r \in Calls :
        \/ ConcClientRequest(r)
        \/ AuthenticateEnter(r)
        \/ GetSpoofPrediction(r)
        \/ AuthenticateDecide(r)
        \/ MlRespond(r)

SpecConc == Init /\ [][NextConc]_vars

\* The Database service in front of the ml-model service.
NextDb ==
    \/ DbInsert
    \/ DbAuthenticate
    \/ DbRespond
    \/ \E r \in Calls :
        \/ DbTransportError(r)
        \/ NoOtherCall(r) /\ MlDeliver(r)
        \/ AuthenticateEnter(r)
        \/ GetSpoofPrediction(r)
        \/ AuthenticateDecide(r)
        \/ DbReceive(r)

SpecDb == Init /\ [][NextDb]_vars

\* FaceAuthenticator.authenticate called with arguments of any type, one
\* call at a time.
NextDirect ==
    \E r \in Calls :
        \/ NoOtherCall(r) /\ DirectCall(r)
        \/ AuthenticateEnter(r)
        \/ GetSpoofPrediction(r)
        \/ AuthenticateDecide(r)
        \/ DirectReturn(r)

SpecDirect == Init /\ [][NextDirect]_vars

\* The methods of Database called one after the other on one collection.
NextStore ==
    \/ StoreInsert
    \/ StoreDeleteUser
    \/ StoreGetRegisteredUsers
    \/ StoreFetchAll

SpecStore == Init /\ [][NextStore]_vars

\* The Database service's user endpoints, one request at a time.
NextUsers ==
    \E a \in UserReqs :
        \/ NoOtherUserReq(a) /\ AddUserStart(a)
        \/ AddUserReceive(a)
        \/ NoOtherUserReq(a) /\ DeleteUserEndpoint(a)
        \/ NoOtherUserReq(a) /\ GetAllUsersEndpoint(a)
        \/ UserRespond(a)

SpecUsers == Init /\ [][NextUsers]_vars

\* Calls of generate_face_embedding.
NextEmbed == EmbedCall

SpecEmbed == Init /\ [][NextEmbed]_vars

\* A few /addUser requests: two spellings of one name, images with no face
\* and with faces of two different encodings.
ConcRawNames == {<<"a">>, <<" ", "A">>}

ConcUploads ==
    {u \in Uploads :
        /\ u.content_type = "image/jpeg"
        /\ u.contents.kind = "image"
        /\ u.contents.image.detect = "ok"}

ConcAddUserStart(a) ==
    /\ FirstFreeUser(a)
    /\ \E raw \in ConcRawNames, image \in ConcUploads :
        ureq' = [ureq EXCEPT ![a] = AddUserRequest(raw, image)]
    /\ UNCHANGED <<is_authenticated, call, store, dbreq, emb, dimension, dbop, hist, ereq, dbinit>>

\* The Database service's /addUser with handlers interleaved at their awaits
\* (Database/main.py lines 129 and 146): a handler may start while another
\* waits for the ml-model service.
NextUsersConc ==
    \E a \in UserReqs :
        \/ ConcAddUserStart(a)
        \/ AddUserReceive(a)
        \/ UserRespond(a)

SpecUsersConc == Init /\ [][NextUsersConc]_vars

\* The ml-model service's /getEmbedding endpoint, one request at a time.
NextMlEmbed ==
    \/ MlEmbeddingRequest
    \/ MlEmbeddingRespond

SpecMlEmbed == Init /\ [][NextMlEmbed]_vars

\* The Database object from the first line of __init__; its methods are
\* called once it is constructed.
InitBoot ==
    /\ is_authenticated = FALSE
    /\ call = [r \in Calls |-> IdleCall]
    /\ store = <<>>
    /\ dbreq = IdleDbReq
    /\ emb = <<>>
    /\ dimension = 0
    /\ ureq = [a \in UserReqs |-> IdleUserReq]
    /\ dbop = NoDbOp
    /\ hist = {}
    /\ ereq = IdleEmbedReq
    /\ dbinit = NewDatabase

NextBoot ==
    \/ CreateClient
    \/ InitializeCollection
    \/ dbinit.pc = "ready" /\ StoreInsert
    \/ dbinit.pc = "ready" /\ StoreDeleteUser
    \/ dbinit.pc = "ready" /\ StoreGetRegisteredUsers
    \/ dbinit.pc = "ready" /\ StoreFetchAll

SpecBoot == InitBoot /\ [][NextBoot]_vars

----------------------------------------------------------------------------
(* Properties of FaceAuthenticator.authenticate and of the endpoints *)

Returned(r) == call[r].pc = "done" /\ call[r].ret.kind = "return"

\* The liveness classifier ran on the call's image and gave this verdict.
VerdictSpoof(r) ==
    /\ call[r].pc \in {"decide", "done"}
    /\ call[r].livenessRuns > 0
    /\ call[r].image.output = "logits_spoof"

VerdictReal(r) ==
    /\ call[r].pc \in {"decide", "done"}
    /\ call[r].livenessRuns > 0
    /\ call[r].image.output = "logits_real"

\* The matcher can compare the call's faces with the known descriptors.
Comparable(r) ==
    /\ call[r].image.detect = "ok"
    /\ call[r].image.faces # <<>>
    /\ \A i \in 1..Len(call[r].known) :
        /\ call[r].known[i].embedding.kind = "list"
        /\ Len(call[r].known[i].embedding.v) = Len(call[r].image.faces[1])

\* Known user i is within the call's threshold of detected face k.
Within(r, i, k) ==
    SqDist(call[r].known[i].embedding.v, call[r].image.faces[k])
        <= call[r].threshold * call[r].threshold

\* The known users within the threshold of the first detected face.
WithinOfProbe(r) == {i \in 1..Len(call[r].known) : Within(r, i, 1)}

\* C1: with a SPOOF verdict authenticate returns (false, null), whatever the
\* known embeddings, and get_user_name is not invoked during the call.
C1_SpoofRejected ==
    \A r \in Calls :
        VerdictSpoof(r) =>
            /\ call[r].matcherCalls = 0
            /\ call[r].pc = "done" =>
                /\ call[r].ret.kind = "return"
                /\ call[r].ret.is_authenticated = FALSE
                /\ call[r].ret.user_name = None

\* A SPOOF verdict was returned on a frame whose first face is a known user's.
C1_Witness ==
    \E r \in Calls :
        /\ VerdictSpoof(r) /\ Returned(r)
        /\ Comparable(r)
        /\ WithinOfProbe(r) # {}

\* C2: with a REAL verdict and no name from the matcher (no face, or no
\* known user within tolerance), authenticate returns (false, null) for any
\* non-empty known map.
C2_NoMatchIsNotAuthenticated ==
    \A r \in Calls :
        ( /\ VerdictReal(r) /\ Returned(r)
          /\ call[r].known # <<>>
          /\ call[r].matcherCalls = 1
          /\ \/ call[r].image.detect = "ok" /\ call[r].image.faces = <<>>
             \/ Comparable(r) /\ \A k \in 1..Len(call[r].image.faces) :
                                    \A i \in 1..Len(call[r].known) : ~Within(r, i, k) )
        => /\ call[r].ret.is_authenticated = FALSE
           /\ call[r].ret.user_name = None

\* C3: with a REAL verdict and a name from the matcher, authenticate returns
\* (true, name); one known user at distance 0 from the probe and the default
\* threshold give (true, that user's name).
C3_MatchIsAuthenticated ==
    \A r \in Calls :
        (VerdictReal(r) /\ call[r].pc = "done") =>
            /\ call[r].ret.kind = "return"
            /\ (call[r].ret.user_name # None) => call[r].ret.is_authenticated = TRUE
            /\ ( /\ Comparable(r)
                 /\ Len(call[r].known) = 1
                 /\ call[r].known[1].embedding.v = call[r].image.faces[1]
                 /\ call[r].threshold = DefaultThreshold )
               => /\ call[r].ret.is_authenticated = TRUE
                  /\ call[r].ret.user_name = call[r].known[1].name

C3_Witness ==
    \E r \in Calls :
        /\ VerdictReal(r) /\ Returned(r)
        /\ Comparable(r)
        /\ Len(call[r].known) = 1
        /\ call[r].known[1].embedding.v = call[r].image.faces[1]
        /\ call[r].threshold = DefaultThreshold
        /\ call[r].ret.user_name = call[r].known[1].name

\* C4: in every result of authenticate and every response of the ml-model
\* /authenticate endpoint, user_name is non-null only if is_authenticated.
C4_NameOnlyIfAuthenticated ==
    \A r \in Calls :
        /\ (call[r].ret.user_name # None) => call[r].ret.is_authenticated = TRUE
        /\ (call[r].resp.user_name # None) => call[r].resp.is_authenticated = TRUE

C4_Witness ==
    \E r \in Calls :
        /\ Returned(r)
        /\ call[r].ret.user_name # None
        /\ call[r].resp.status = 200
        /\ call[r].resp.user_name # None

\* C5: when two or more known users are within tolerance of the probe
\* descriptor, the first of them in map order is returned, whatever their
\* distances.
C5_FirstInMapOrder ==
    \A r \in Calls :
        ( /\ VerdictReal(r) /\ Returned(r)
          /\ Comparable(r)
          /\ Cardinality(WithinOfProbe(r)) >= 2 )
        => \E i \in WithinOfProbe(r) :
            /\ \A j \in WithinOfProbe(r) : i <= j
            /\ call[r].ret.user_name = call[r].known[i].name

\* Two users within tolerance, the later one strictly nearer; the earlier is returned.
C5_Witness ==
    \E r \in Calls :
        /\ VerdictReal(r) /\ Returned(r)
        /\ Comparable(r)
        /\ \E i, j \in WithinOfProbe(r) :
            /\ i < j
            /\ SqDist(call[r].known[j].embedding.v, call[r].image.faces[1])
                < SqDist(call[r].known[i].embedding.v, call[r].image.faces[1])
            /\ \A h \in WithinOfProbe(r) : i <= h
            /\ call[r].ret.user_name = call[r].known[i].name

\* C6: a known user matches exactly when its distance to the probe is <= the
\* threshold passed to authenticate; with threshold 0 only a zero-distance
\* candidate matches; with a threshold no smaller than every distance the
\* first candidate in map order is returned.
C6_MatchIffWithinThreshold ==
    \A r \in Calls :
        (VerdictReal(r) /\ Returned(r) /\ Comparable(r))
        => LET faces == 1..Len(call[r].image.faces)
               users == 1..Len(call[r].known)
           IN
           /\ (\A i \in users, k \in faces : ~Within(r, i, k))
                <=> (call[r].ret.user_name = None)
           /\ \A i \in users :
                (call[r].ret.user_name = call[r].known[i].name)
                    => \E k \in faces : Within(r, i, k)
           /\ call[r].threshold = 0 =>
                \A i \in users :
                    (call[r].ret.user_name = call[r].known[i].name)
                        => \E k \in faces :
                            call[r].known[i].embedding.v = call[r].image.faces[k]
           /\ (users # {} /\ WithinOfProbe(r) = users)
                => call[r].ret.user_name = call[r].known[1].name

\* With threshold 0 the first known user, at a positive distance from the
\* probe, did not match and the second, at distance 0, did.
C6_Witness ==
    \E r \in Calls :
        /\ VerdictReal(r) /\ Returned(r)
        /\ Comparable(r)
        /\ Len(call[r].image.faces) = 1
        /\ call[r].threshold = 0
        /\ Len(call[r].known) = 2
        /\ call[r].known[1].embedding.v # call[r].image.faces[1]
        /\ call[r].known[2].embedding.v = call[r].image.faces[1]
        /\ call[r].ret.user_name = call[r].known[2].name

\* C7: a failure of the liveness model reaches the caller as an error:
\* authenticate raises, the ml-model endpoint and the Database endpoint
\* answer with a server error, never with a not-authenticated result.
C7_LivenessFailureIsAnError ==
    /\ \A r \in Calls :
        (call[r].pc = "done" /\ call[r].raisedAt = "liveness") =>
            /\ call[r].ret.kind = "raise"
            /\ call[r].resp.status >= 500
    /\ (dbreq.pc = "done" /\ dbreq.livenessFailed) => dbreq.resp.status >= 500

\* C8 as stated: an exception raised anywhere in the pipeline, the matcher
\* included, leaves authenticate as a ValueError and no result is returned.
C8_AnyExceptionRaisesValueError ==
    \A r \in Calls :
        (call[r].pc = "done" /\ call[r].raisedAt # "none") =>
            /\ call[r].ret.kind = "raise"
            /\ call[r].ret.exc = "ValueError"

\* C8 amended: an exception raised while converting the known embeddings or
\* running the liveness model leaves authenticate as a ValueError, with no
\* result; an exception raised while matching is caught by get_user_name and
\* authenticate returns a result with a null user_name.
C8_PipelineExceptionRaisesValueError ==
    \A r \in Calls :
        /\ (call[r].pc = "done" /\ call[r].raisedAt \in {"convert", "liveness"}) =>
            /\ call[r].ret.kind = "raise"
            /\ call[r].ret.exc = "ValueError"
            /\ call[r].resp.status = 500
        /\ (call[r].pc = "done" /\ call[r].raisedAt = "match") =>
            /\ call[r].ret.kind = "return"
            /\ call[r].ret.user_name = None
        /\ (call[r].pc = "done" /\ call[r].origin = 0 /\ call[r].resp.status = 200) =>
            call[r].raisedAt \in {"none", "match"}

C8_Witness ==
    \E r \in Calls :
        /\ call[r].pc = "done"
        /\ call[r].raisedAt = "liveness"
        /\ call[r].ret.exc = "ValueError"

\* What authenticate returns for these arguments on an authenticator no
\* other call touches.
AloneResult(image, known, threshold) ==
    IF image.output = "logits_real"
    THEN [kind |-> "return", is_authenticated |-> TRUE,
          user_name |-> GetUserName(ReverseChannels(image),
                            [i \in 1..Len(known) |-> known[i].embedding],
                            [i \in 1..Len(known) |-> known[i].name], threshold).name,
          exc |-> "none"]
    ELSE [kind |-> "return", is_authenticated |-> FALSE, user_name |-> None, exc |-> "none"]

\* C9: under any interleaving of concurrent authenticate calls on the shared
\* authenticator, each call returns what it would return alone.
C9_ResultAsIfAlone ==
    \A r \in Calls :
        Returned(r) => call[r].ret = AloneResult(call[r].image, call[r].known, call[r].threshold)

\* A call returned (true, name) although another call, run in between, left
\* the shared field false.
C9_Witness ==
    \E r, q \in Calls :
        /\ r # q
        /\ Returned(r) /\ Returned(q)
        /\ call[r].ret.is_authenticated = TRUE
        /\ call[r].ret.user_name # None
        /\ call[q].ret.is_authenticated = FALSE
        /\ is_authenticated = FALSE

\* C10: for an array, generate_face_embedding never raises; it returns None
\* when no encoding is found or the extraction raises, else the first encoding.
C10_EmbeddingOfArray ==
    \A n \in 1..Len(emb) :
        emb[n].image.kind = "array" =>
            /\ emb[n].result.kind = "return"
            /\ (FaceEncodingsRaises(emb[n].image) \/ emb[n].image.image.faces = <<>>)
                => ~emb[n].result.found
            /\ (~FaceEncodingsRaises(emb[n].image) /\ emb[n].image.image.faces # <<>>)
                => /\ emb[n].result.found
                   /\ emb[n].result.value = emb[n].image.image.faces[1]

C10_Witness ==
    \E n, m \in 1..Len(emb) :
        /\ emb[n].image.kind = "array"
        /\ Len(emb[n].image.image.faces) = 2
        /\ emb[n].image.image.faces[1] # emb[n].image.image.faces[2]
        /\ emb[n].result.value = emb[n].image.image.faces[1]
        /\ emb[m].image.kind = "array"
        /\ emb[m].image.image.detect = "raise"
        /\ ~emb[m].result.found

\* C11 as stated: for None, for an object that is no array and for an array
\* of the wrong rank, generate_face_embedding raises instead of returning None.
C11_MalformedFailsFast ==
    \A n \in 1..Len(emb) :
        (emb[n].image.kind # "array" \/ emb[n].image.shape # ImageShape)
            => emb[n].result.kind = "raise"

\* C11 amended: generate_face_embedding raises ValueError for None and for
\* an object that is no array; for an array of the wrong rank it raises
\* nothing and returns None.
C11_MalformedTypeFailsFast ==
    \A n \in 1..Len(emb) :
        /\ emb[n].image.kind # "array"
            => emb[n].result = EmbedRaise("ValueError")
        /\ (emb[n].image.kind = "array" /\ emb[n].image.shape # ImageShape)
            => emb[n].result = EmbedNone

C11_Witness ==
    \E n, m \in 1..Len(emb) :
        /\ emb[n].image.kind = "none"
        /\ emb[n].result.kind = "raise"
        /\ emb[m].image.kind = "array"
        /\ emb[m].image.shape = "N"
        /\ emb[m].result = EmbedNone

\* C12: for a None image and for an array of invalid shape (rank 1),
\* generate_face_embedding returns None and raises nothing.
C12_InvalidInputReturnsNone ==
    \A n \in 1..Len(emb) :
        (emb[n].image.kind = "none"
            \/ (emb[n].image.kind = "array" /\ emb[n].image.shape # ImageShape))
        => emb[n].result = EmbedNone

\* A call of authenticate whose image is no array or whose known embeddings
\* are no dictionary.
MalformedArgs(r) == call[r].args.image # "array" \/ call[r].args.known # "dict"

\* C13: authenticate rejects a null or non-array image and a null or
\* non-mapping known-embeddings argument with an error, raised before the
\* liveness model is run or the matcher is called, and the step that raises
\* it leaves the authenticator's state unchanged.
C13_PreconditionsRejected ==
    /\ [](\A r \in Calls :
            (call[r].pc \notin {"idle", "auth_call"} /\ MalformedArgs(r)) =>
                /\ call[r].pc = "done"
                /\ call[r].ret.kind = "raise"
                /\ call[r].ret.exc = "AssertionError"
                /\ call[r].livenessRuns = 0
                /\ call[r].matcherCalls = 0)
    /\ [][\A r \in Calls :
            (call[r].pc = "auth_call" /\ MalformedArgs(r) /\ call'[r].pc # "auth_call")
                => is_authenticated' = is_authenticated]_vars

\* A call with a dictionary and an object that is no array was rejected on
\* an authenticator that an earlier call left authenticated.
C13_Witness ==
    \E r \in Calls :
        /\ call[r].pc = "done"
        /\ call[r].args = [image |-> "object", known |-> "dict"]
        /\ call[r].ret.exc = "AssertionError"
        /\ is_authenticated = TRUE

\* C14: when the store holds no registered users, Database /authenticate
\* answers 404 and makes no call of the ml-model service: no post is sent
\* and no handler of the ml-model service runs.
C14_EmptyStoreShortCircuits ==
    (dbreq.pc # "idle" /\ store = <<>>) =>
        /\ dbreq.pc = "done"
        /\ dbreq.resp.status = 404
        /\ dbreq.mlPosts = 0
        /\ \A r \in Calls : call[r].pc = "idle"

C14_Witness ==
    /\ store = <<>>
    /\ dbreq.pc = "done"
    /\ dbreq.resp.status = 404
    /\ dbreq.mlPosts = 0

----------------------------------------------------------------------------
(* Properties of the Database service's user management *)

\* A name with no whitespace at its ends and no uppercase letter.
IsNormalized(user_name) ==
    /\ user_name # <<>>
    /\ user_name[1] # " "
    /\ user_name[Len(user_name)] # " "
    /\ \A i \in 1..Len(user_name) : user_name[i] # "A"

\* The name is what is left of the raw string between its leading and its
\* trailing whitespace, letter by letter, in lowercase.
TrimmedLowerOf(raw, user_name) ==
    \E i, j \in 0..Len(raw) :
        /\ i + Len(user_name) + j = Len(raw)
        /\ \A k \in 1..i : raw[k] = " "
        /\ \A k \in (i + Len(user_name) + 1)..Len(raw) : raw[k] = " "
        /\ \A k \in 1..Len(user_name) :
            \/ raw[i + k] = user_name[k]
            \/ raw[i + k] = "A" /\ user_name[k] = "a"

\* C15: validate_user_name returns the name trimmed and lowercased, is
\* idempotent, and rejects an empty or whitespace-only name with an error;
\* every name the Database endpoints pass to insert or delete_user is in
\* this form, and so is every key of the store.
C15_NamesAreNormalized ==
    /\ \A a \in UserReqs :
        ureq[a].endpoint \in {"addUser", "deleteUser"} =>
            LET raw == ureq[a].raw
                v == ureq[a].validated
            IN
            /\ (v.kind = "raise") <=> (\A i \in 1..Len(raw) : raw[i] = " ")
            /\ v.kind = "raise" => v.status = 400
            /\ v.kind = "return" =>
                /\ IsNormalized(v.value)
                /\ TrimmedLowerOf(raw, v.value)
                /\ ValidateUserName(v.value) = v
    /\ dbop.name \in {"insert", "delete_user"} => IsNormalized(dbop.user_name)
    /\ \A i \in 1..Len(store) : IsNormalized(store[i].name)

\* A name sent with a leading blank and in uppercase was stored trimmed and
\* in lowercase.
C15_Witness ==
    \E a \in UserReqs :
        /\ ureq[a].pc = "done"
        /\ ureq[a].endpoint = "addUser"
        /\ ureq[a].raw = <<" ", "A">>
        /\ ureq[a].inserted
        /\ dbop.name = "insert"
        /\ dbop.user_name = <<"a">>
        /\ \E i \in 1..Len(store) : store[i].name = <<"a">>

\* The last call was made on a store that held the name it was given.
NameWasStored == \E i \in 1..Len(dbop.before) : dbop.before[i].name = dbop.user_name

\* The store is the store before the call with one entry more, of the name
\* the call was given.
AddedExactlyThatName ==
    /\ Len(store) = Len(dbop.before) + 1
    /\ SubSeq(store, 1, Len(dbop.before)) = dbop.before
    /\ store[Len(store)].name = dbop.user_name

\* insert has returned, for a non-empty list.
InsertReturned == dbop.name = "insert" /\ dbop.result.kind = "return"

\* C16 as stated: insert of a name that is in the store returns False and
\* leaves the store unchanged; insert of an absent name with any non-empty
\* list returns True and adds exactly that name.
C16_InsertOnceOnly ==
    InsertReturned =>
        /\ NameWasStored => (~dbop.result.ok /\ store = dbop.before)
        /\ ~NameWasStored => (dbop.result.ok /\ AddedExactlyThatName)

\* The embedding of the last call is a flat list of numbers of the
\* collection's dimensionality.
EmbeddingFitsCollection ==
    dbop.embedding.kind = "list" /\ Len(dbop.embedding.v) = dimension

\* C16 amended: insert of a name that is in the store returns False and
\* leaves the store unchanged; insert of an absent name returns True and
\* adds exactly that name when the embedding is a flat list of numbers of
\* the collection's dimensionality, and returns False and leaves the store
\* unchanged for any other non-empty list.
C16_InsertOnceOnlyIfAccepted ==
    InsertReturned =>
        /\ NameWasStored => (~dbop.result.ok /\ store = dbop.before)
        /\ (~NameWasStored /\ EmbeddingFitsCollection)
            => (dbop.result.ok /\ AddedExactlyThatName)
        /\ (~NameWasStored /\ ~EmbeddingFitsCollection)
            => (~dbop.result.ok /\ store = dbop.before)

\* A second insert of a stored name, with another embedding, returned False
\* and the stored embedding is the first one.
C16_Witness ==
    /\ InsertReturned
    /\ ~dbop.result.ok
    /\ dbop.embedding = ListEmbedding(<<8, 0>>)
    /\ store = dbop.before
    /\ \E i \in 1..Len(store) :
        /\ store[i].name = dbop.user_name
        /\ store[i].embedding = ListEmbedding(<<0, 6>>)

\* C17: delete_user of a stored name returns True, the name is no longer
\* registered and every other user is unchanged; delete_user of a name that
\* is not stored returns False and leaves the store unchanged.
C17_DeleteUser ==
    dbop.name = "delete_user" =>
        /\ NameWasStored =>
            /\ dbop.result.ok
            /\ \A i \in 1..Len(store) : store[i].name # dbop.user_name
            /\ Len(store) = Len(dbop.before) - 1
            /\ \A i \in 1..Len(dbop.before) :
                dbop.before[i].name # dbop.user_name
                    => \E j \in 1..Len(store) : store[j] = dbop.before[i]
        /\ ~NameWasStored => (~dbop.result.ok /\ store = dbop.before)

\* One of two stored users was deleted; the other is still stored.
C17_Witness ==
    /\ dbop.name = "delete_user"
    /\ dbop.result.ok
    /\ Len(dbop.before) = 2
    /\ Len(store) = 1
    /\ store[1].name # dbop.user_name

\* The names whose last successful insert or delete_user was an insert.
LastInserted == {h.name : h \in {g \in hist : g.op = "insert"}}

\* The embedding given at the last successful insert of the name.
GivenAtInsert(user_name) ==
    (CHOOSE h \in hist : h.name = user_name /\ h.op = "insert").embedding

\* get_registered_users and fetch_all return exactly the names whose last
\* successful operation was an insert, each one once.
ReturnsLastInserted ==
    /\ dbop.name = "get_registered_users" =>
        /\ {dbop.result.names[i] : i \in 1..Len(dbop.result.names)} = LastInserted
        /\ Len(dbop.result.names) = Cardinality(LastInserted)
    /\ dbop.name = "fetch_all" =>
        /\ {dbop.result.dict[i].name : i \in 1..Len(dbop.result.dict)} = LastInserted
        /\ Len(dbop.result.dict) = Cardinality(LastInserted)

\* C18 as stated: after any sequence of insert and delete_user calls from
\* an empty store, get_registered_users returns exactly the names whose last
\* successful operation was an insert, and fetch_all returns exactly those
\* names, each mapped to the embedding given at that insert.
C18_ReadsReturnWhatWasInserted ==
    /\ ReturnsLastInserted
    /\ dbop.name = "fetch_all" =>
        \A i \in 1..Len(dbop.result.dict) :
            dbop.result.dict[i].embedding = GivenAtInsert(dbop.result.dict[i].name)

\* The numbers are those of the given list, each within the precision the
\* collection keeps (an even integer at most 1 away).
SinglePrecisionOf(returned, given) ==
    /\ returned.kind = given.kind
    /\ Len(returned.v) = Len(given.v)
    /\ \A k \in 1..Len(given.v) :
        /\ returned.v[k] % 2 = 0
        /\ returned.v[k] - given.v[k] \in {-1, 0, 1}

\* C18 amended: get_registered_users returns exactly the names whose last
\* successful operation was an insert, and fetch_all returns exactly those
\* names, each mapped to the embedding given at that insert in the single
\* precision the collection keeps it in.
C18_ReadsReturnWhatIsStored ==
    /\ ReturnsLastInserted
    /\ dbop.name = "fetch_all" =>
        \A i \in 1..Len(dbop.result.dict) :
            SinglePrecisionOf(dbop.result.dict[i].embedding,
                              GivenAtInsert(dbop.result.dict[i].name))

\* fetch_all returned the one user left after a delete_user that succeeded.
C18_Witness ==
    /\ dbop.name = "fetch_all"
    /\ Len(dbop.result.dict) = 1
    /\ dbop.result.dict[1].embedding = ListEmbedding(<<8, 0>>)
    /\ \E h \in hist : h.op = "delete_user"
    /\ dimension = 2

\* An /addUser request with an acceptable name that was registered when the
\* handler started.
AddUserOfRegistered(a) ==
    /\ ureq[a].endpoint = "addUser"
    /\ ureq[a].validated.kind = "return"
    /\ \E i \in 1..Len(ureq[a].before) : ureq[a].before[i].name = ureq[a].user_name

\* The request was answered is_saved=false with the message, without a
\* post to the ml-model service, without a call of insert, and the store is
\* as it was.
RefusedUntouched(a, message) ==
    /\ ureq[a].pc = "done"
    /\ ureq[a].resp.status = 200
    /\ ~ureq[a].resp.is_saved
    /\ ureq[a].resp.message = message
    /\ ureq[a].mlPosts = 0
    /\ ureq[a].insertCalls = 0
    /\ store = ureq[a].before

\* C19 as stated: when the normalized name of an addUser request is already
\* registered, /addUser answers is_saved=false with an 'already exists'
\* message, does not call the ml-model service, does not call insert and
\* leaves the store unchanged.
C19_ExistingUserRefused ==
    \A a \in UserReqs :
        AddUserOfRegistered(a) => RefusedUntouched(a, "already exists")

\* C19 amended: the same for a request whose file has an image content
\* type; with another content type the request is refused in the same way
\* with an 'Invalid file type' message.
C19_ExistingUserRefusedAfterFileCheck ==
    \A a \in UserReqs :
        AddUserOfRegistered(a) =>
            /\ ureq[a].image.content_type = "image/jpeg"
                => RefusedUntouched(a, "already exists")
            /\ ureq[a].image.content_type # "image/jpeg"
                => RefusedUntouched(a, "Invalid file type")

\* A registered name, sent again in uppercase with an image, was refused.
C19_Witness ==
    \E a \in UserReqs :
        /\ AddUserOfRegistered(a)
        /\ ureq[a].raw = <<"A">>
        /\ ureq[a].image.content_type = "image/jpeg"
        /\ ureq[a].existed
        /\ RefusedUntouched(a, "already exists")

\* The post of the request ended without an embedding: a timeout, no
\* connection, an answer that is not 200 (the file does not decode), or a
\* 200 without an embedding (the extraction raises or finds no face).
MlGaveNoEmbedding(a) ==
    /\ ureq[a].endpoint = "addUser"
    /\ ureq[a].pc = "done"
    /\ ureq[a].mlPosts = 1
    /\ \/ ureq[a].transport \in {"timeout", "unreachable"}
       \/ ureq[a].image.contents.kind = "undecodable"
       \/ ureq[a].image.contents.image.detect = "raise"
       \/ ureq[a].image.contents.image.faces = <<>>

\* C20: when the call of the ml-model service made by /addUser times out,
\* cannot be reached, answers with a non-200 status or answers without an
\* embedding, /addUser answers 200 with is_saved=false and the store is
\* unchanged; is_saved=true is answered only when insert returned True.
C20_NotSavedWithoutEmbedding ==
    \A a \in UserReqs :
        /\ MlGaveNoEmbedding(a) =>
            /\ ureq[a].resp.status = 200
            /\ ~ureq[a].resp.is_saved
            /\ ureq[a].insertCalls = 0
            /\ store = ureq[a].before
        /\ (ureq[a].endpoint = "addUser" /\ ureq[a].resp.is_saved) =>
            /\ ureq[a].insertCalls = 1
            /\ ureq[a].inserted
            /\ dbop.name = "insert" /\ dbop.result.ok

\* The ml-model service answered 500 for a file that does not decode and
\* the request was answered 200, not saved, on a store that holds a user.
C20_Witness ==
    \E a \in UserReqs :
        /\ MlGaveNoEmbedding(a)
        /\ ureq[a].transport = "answered"
        /\ ureq[a].mlStatus = 500
        /\ ureq[a].resp.status = 200
        /\ ~ureq[a].resp.is_saved
        /\ store # <<>>

----------------------------------------------------------------------------
(* Properties of the ml-model endpoints and of the pipeline's order *)

\* The form of the request is one the endpoint refuses: known_face_embeddings
\* is no JSON, is JSON but no dictionary, or has a value that is no list, or
\* the image data does not decode.
FormRefused(r) ==
    \/ call[r].form.known \in {"invalid", "list"}
    \/ /\ call[r].form.known = "dict"
       /\ \E i \in 1..Len(call[r].known) : call[r].known[i].embedding.kind = "str"
    \/ call[r].form.image = "undecodable"

\* C21: the ml-model /authenticate endpoint answers 400 and never invokes
\* authenticator.authenticate when known_face_embeddings is not valid JSON,
\* is not a dictionary or has a value that is not a list, and when the image
\* data cannot be decoded; the 400 is not turned into a 500.
C21_BadFormIs400 ==
    \A r \in Calls :
        FormRefused(r) =>
            /\ call[r].pc = "done"
            /\ call[r].resp.status = 400
            /\ call[r].ret = NoRet
            /\ call[r].livenessRuns = 0
            /\ call[r].matcherCalls = 0
            /\ call[r].raisedAt = "none"

\* A dictionary with a value that is no list, sent with an image that
\* decodes, was answered 400.
C21_Witness ==
    \E r \in Calls :
        /\ call[r].form.image = "image"
        /\ call[r].form.known = "dict"
        /\ \E i \in 1..Len(call[r].known) : call[r].known[i].embedding.kind = "str"
        /\ call[r].pc = "done"
        /\ call[r].resp.status = 400

\* The request carries an input error: a file that is no image by its
\* content type, an empty file, bytes that do not decode, or an empty name.
InputError ==
    \/ ~IsImageType(ereq.image.content_type)
    \/ ereq.image.contents.kind \in {"empty", "undecodable"}
    \/ \A i \in 1..Len(ereq.raw) : ereq.raw[i] = " "

\* C22: input errors at the ml-model /getEmbedding endpoint (a file that is
\* no image, an empty file, a malformed image, an empty user name) are
\* answered with a 4xx status, never a 5xx one, before embedding extraction
\* is attempted.
C22_InputErrorsAre4xx ==
    (ereq.pc = "done" /\ InputError) =>
        /\ ereq.resp.status \in 400..499
        /\ ereq.embedCalls = 0

\* The form of the request passes the endpoint's validation.
FormAccepted ==
    /\ IsImageType(ereq.image.content_type)
    /\ \E i \in 1..Len(ereq.raw) : ereq.raw[i] # " "

\* C23: when embedding generation raises, or the uploaded image file is
\* empty, the ml-model /getEmbedding endpoint answers 200 with is_saved=false
\* and no embedding, not an error status.
C23_GenerationErrorIsNotSaved ==
    ( /\ ereq.pc = "done"
      /\ FormAccepted
      /\ \/ ereq.image.contents.kind = "empty"
         \/ ereq.image.contents.kind = "image" /\ ereq.image.contents.image.detect = "raise" )
    => /\ ereq.resp.status = 200
       /\ ~ereq.resp.is_saved
       /\ ereq.resp.embedding = NoneEmbedding

\* The call has reached FaceAuthenticator.authenticate.
InAuthenticate(r) ==
    call[r].pc \in {"auth_call", "liveness", "decide"} \/ call[r].ret.kind # "none"

\* C24: when the caller supplies no threshold, matching uses tolerance 0.6 at
\* every entry point: FaceAuthenticator.authenticate, the ml-model
\* /authenticate endpoint, and the Database /authenticate endpoint, whose
\* request reaches the matcher with 0.6.
C24_DefaultToleranceEverywhere ==
    \A r \in Calls :
        InAuthenticate(r) =>
            /\ call[r].origin = 2 => call[r].threshold = 6
            /\ (call[r].origin = 0 /\ ~call[r].form.threshold) => call[r].threshold = 6
            /\ (call[r].origin = 1 /\ ~dbreq.thresholdGiven) => call[r].threshold = 6

\* The terminal states of a call of authenticate.
SpoofRejected(r) ==
    /\ call[r].ret.kind = "return"
    /\ call[r].image.output = "logits_spoof"
    /\ call[r].matcherCalls = 0

Matched(r) ==
    /\ call[r].ret.kind = "return"
    /\ call[r].matcherCalls = 1
    /\ call[r].ret.user_name # None

NoMatch(r) ==
    /\ call[r].ret.kind = "return"
    /\ call[r].matcherCalls = 1
    /\ call[r].ret.user_name = None

EndedInError(r) == call[r].ret.kind = "raise"

\* Exactly one of the four holds.
OneTerminal(r) ==
    Cardinality({k \in {"spoof", "matched", "no_match", "error"} :
        \/ k = "spoof" /\ SpoofRejected(r)
        \/ k = "matched" /\ Matched(r)
        \/ k = "no_match" /\ NoMatch(r)
        \/ k = "error" /\ EndedInError(r)}) = 1

\* One step of a call of authenticate: from its start to the liveness check
\* (or an error), from the liveness check, run once, to the decision (or an
\* error), from the decision to its end, with one call of the matcher after
\* a REAL verdict and none after a SPOOF verdict.
PipelineStep(r) ==
    /\ (call[r].pc = "auth_call" /\ call'[r].pc # "auth_call") =>
            /\ call'[r].livenessRuns = 0 /\ call'[r].matcherCalls = 0
            /\ \/ call'[r].pc = "liveness"
               \/ call'[r].pc = "done" /\ EndedInError(r)'
    /\ (call[r].pc = "liveness" /\ call'[r].pc # "liveness") =>
            /\ call'[r].livenessRuns = 1 /\ call'[r].matcherCalls = 0
            /\ \/ call'[r].pc = "decide"
               \/ call'[r].pc = "done" /\ EndedInError(r)'
    /\ (call[r].pc = "decide" /\ call'[r].pc # "decide") =>
            /\ call'[r].pc = "done"
            /\ call'[r].livenessRuns = 1
            /\ call'[r].matcherCalls = IF call[r].image.output = "logits_real" THEN 1 ELSE 0
            /\ SpoofRejected(r)' \/ Matched(r)' \/ NoMatch(r)'

\* C25: every call of authenticate that passes its preconditions goes from
\* its start to the liveness check, then to a spoof rejection or to face
\* matching, then to a match or no match: the liveness model runs exactly
\* once and before any matching, matching runs at most once and only after a
\* REAL verdict, and the call ends in exactly one terminal state or an error.
C25_PipelineOrder ==
    /\ [](\A r \in Calls :
            /\ call[r].livenessRuns <= 1
            /\ call[r].matcherCalls <= 1
            /\ call[r].matcherCalls = 1 =>
                    (call[r].livenessRuns = 1 /\ call[r].image.output = "logits_real")
            /\ (InAuthenticate(r) /\ call[r].pc = "done") => OneTerminal(r)
            /\ call[r].ret.kind = "return" => call[r].livenessRuns = 1)
    /\ [][\A r \in Calls : PipelineStep(r)]_vars

\* A call on a frame with a face ended as a spoof rejection, after one run
\* of the liveness model and without a call of the matcher.
C25_Witness ==
    \E r \in Calls :
        /\ call[r].pc = "done"
        /\ SpoofRejected(r)
        /\ call[r].livenessRuns = 1
        /\ call[r].image.faces # <<>>
        /\ is_authenticated = FALSE

\* The matcher ran on a frame with several faces that it can compare.
SeveralFaces(r) ==
    /\ VerdictReal(r) /\ Returned(r)
    /\ Comparable(r)
    /\ Len(call[r].image.faces) >= 2

\* The detected faces that are within the threshold of some known user.
FacesWithMatch(r) ==
    {k \in 1..Len(call[r].image.faces) : \E i \in 1..Len(call[r].known) : Within(r, i, k)}

\* C26 as stated: with several faces detected the matcher uses the first
\* one only: when the first face is within tolerance of no known user the
\* result is no match, even when a later face is within tolerance of one.
C26_FirstFaceOnly ==
    \A r \in Calls :
        (SeveralFaces(r) /\ WithinOfProbe(r) = {}) => call[r].ret.user_name = None

\* C26 amended: with several faces detected the matcher takes them in
\* detection order and returns the first known user, in map order, within
\* tolerance of the earliest face that has one; a later face is used when
\* the faces before it are within tolerance of no known user, and the result
\* is no match only when no detected face is within tolerance of any.
C26_FacesInDetectionOrder ==
    \A r \in Calls :
        SeveralFaces(r) =>
            IF FacesWithMatch(r) = {}
            THEN call[r].ret.user_name = None
            ELSE \E k \in FacesWithMatch(r) :
                    /\ \A h \in FacesWithMatch(r) : k <= h
                    /\ \E i \in 1..Len(call[r].known) :
                        /\ Within(r, i, k)
                        /\ \A j \in 1..(i - 1) : ~Within(r, j, k)
                        /\ call[r].ret.user_name = call[r].known[i].name

\* The first face is within tolerance of no known user, the second one is
\* within tolerance of a user, whose name was returned.
C26_Witness ==
    \E r \in Calls :
        /\ SeveralFaces(r)
        /\ WithinOfProbe(r) = {}
        /\ \E i \in 1..Len(call[r].known) :
            /\ Within(r, i, 2)
            /\ call[r].ret.user_name = call[r].known[i].name
            /\ call[r].ret.is_authenticated = TRUE

\* The matcher was called on inputs one of its calls fails on: locating or
\* encoding the faces raises, or a known descriptor is no list of numbers of
\* a face encoding's length.
MatcherFailsInside(r) ==
    /\ call[r].pc = "done"
    /\ call[r].matcherCalls = 1
    /\ \/ call[r].image.detect = "raise"
       \/ /\ call[r].image.faces # <<>>
          /\ \E i \in 1..Len(call[r].known) :
                \/ call[r].known[i].embedding.kind # "list"
                \/ Len(call[r].known[i].embedding.v) # Len(call[r].image.faces[1])

\* C27: an error inside the matcher (face location, encoding, comparison
\* with the known descriptors, malformed descriptors included) is caught in
\* get_user_name and becomes a None result; get_user_name never raises, so
\* authenticate returns.
C27_MatcherNeverRaises ==
    \A r \in Calls :
        /\ MatcherFailsInside(r) =>
            /\ call[r].ret.kind = "return"
            /\ call[r].ret.user_name = None
            /\ call[r].resp.status = 200
            /\ call[r].resp.user_name = None
        /\ (call[r].pc = "done" /\ call[r].matcherCalls = 1) => call[r].ret.kind = "return"

\* A known descriptor of another length than the face encoding: the
\* comparison raised inside the matcher and authenticate returned no name.
C27_Witness ==
    \E r \in Calls :
        /\ MatcherFailsInside(r)
        /\ call[r].image.detect = "ok"
        /\ \E i \in 1..Len(call[r].known) : call[r].known[i].embedding = WrongLenEmbedding
        /\ call[r].raisedAt = "match"
        /\ call[r].ret.kind = "return"
        /\ call[r].ret.user_name = None

\* C28: the frame the matcher receives from authenticate is the frame passed
\* to authenticate, with the same pixels and the same channel order, not the
\* input of the liveness model; and the liveness model receives the image in
\* the channel order in which it was supplied.
C28_MatcherGetsOriginalFrame ==
    \A r \in Calls :
        /\ (call[r].pc = "done" /\ call[r].matcherCalls = 1) =>
            /\ call[r].frame_rgb.faces = call[r].image.faces
            /\ call[r].frame_rgb.channels = call[r].image.channels
        /\ call[r].livenessRuns = 1 =>
            call[r].preprocessed_frame.channels = call[r].image.channels

----------------------------------------------------------------------------
(* Properties of concurrent registration and of the store's construction *)

\* Two /addUser requests of one normalized name have both passed the
\* already-exists check on a store without the name, have both got an
\* embedding from the ml-model service and have both ended.
RacedAddUser(a, b) ==
    /\ a # b
    /\ ureq[a].endpoint = "addUser" /\ ureq[b].endpoint = "addUser"
    /\ ureq[a].pc = "done" /\ ureq[b].pc = "done"
    /\ ureq[a].user_name = ureq[b].user_name
    /\ \A c \in {a, b} :
        /\ ureq[c].mlPosts = 1
        /\ ureq[c].transport = "answered"
        /\ ureq[c].image.contents.image.faces # <<>>
        /\ \A i \in 1..Len(ureq[c].before) : ureq[c].before[i].name # ureq[c].user_name

\* The entries of the store under the name.
EntriesOf(user_name) == {i \in 1..Len(store) : store[i].name = user_name}

\* C29: of two concurrent /addUser requests with the same normalized name
\* that both pass the already-exists check before either inserts and both
\* get an embedding, at most one answers is_saved=true, the other answers
\* is_saved=false, and the store holds the name exactly once, with the
\* embedding of the request that answered true (in the precision the
\* collection keeps; when a third such request was the first to insert,
\* both are answered false).
C29_ConcurrentAddUserSavesOnce ==
    \A a, b \in UserReqs :
        RacedAddUser(a, b) =>
            /\ ~(ureq[a].resp.is_saved /\ ureq[b].resp.is_saved)
            /\ \A c \in {a, b} : ~ureq[c].resp.is_saved => ureq[c].resp.status = 200
            /\ Cardinality(EntriesOf(ureq[a].user_name)) = 1
            /\ \A c \in {a, b} : \A i \in EntriesOf(ureq[a].user_name) :
                ureq[c].resp.is_saved =>
                    SinglePrecisionOf(store[i].embedding,
                        ListEmbedding(ureq[c].image.contents.image.faces[1]))

\* Two requests of one name in two spellings, with faces of different
\* encodings: the second to insert was answered is_saved=false.
C29_Witness ==
    \E a, b \in UserReqs :
        /\ RacedAddUser(a, b)
        /\ ureq[a].raw # ureq[b].raw
        /\ ureq[a].image.contents.image.faces[1] # ureq[b].image.contents.image.faces[1]
        /\ ureq[a].resp.is_saved
        /\ ~ureq[b].resp.is_saved
        /\ ureq[b].insertCalls = 1

\* The creations of the client that have failed so far.
ClientFailures == dbinit.clientCalls - (IF dbinit.client THEN 1 ELSE 0)

\* C30: Database.__init__ tries to create the client at most 3 times and
\* stops at the first success; it waits 1 second after the first failure and
\* 2 seconds after the second; after a third failure it raises RuntimeError
\* without another wait and without initializing the collection; the
\* collection is initialized exactly once, only after a successful creation
\* of the client.
C30_ClientRetries ==
    /\ [](/\ dbinit.clientCalls <= 3
          /\ dbinit.sleeps = SubSeq(<<1, 2>>, 1, IF ClientFailures < 2 THEN ClientFailures ELSE 2)
          /\ ClientFailures = 3 =>
                /\ dbinit.pc = "failed"
                /\ dbinit.raised = "RuntimeError"
                /\ dbinit.collectionInits = 0
                /\ ~dbinit.collection
          /\ (~dbinit.client /\ ClientFailures < 3) => dbinit.pc = "create"
          /\ dbinit.collectionInits <= 1
          /\ dbinit.collectionInits = 1 => dbinit.client
          /\ dbinit.pc = "ready" => (dbinit.collectionInits = 1 /\ dbinit.collection)
          /\ (dbinit.client /\ dbinit.pc # "collection") => dbinit.collectionInits = 1)
    /\ [][dbinit.client =>
            /\ dbinit'.clientCalls = dbinit.clientCalls
            /\ dbinit'.sleeps = dbinit.sleeps]_vars

\* The client was created at the third attempt, after waits of 1 and 2
\* seconds, and the collection was initialized once.
C30_Witness ==
    /\ dbinit.pc = "ready"
    /\ dbinit.clientCalls = 3
    /\ dbinit.sleeps = <<1, 2>>
    /\ dbinit.collectionInits = 1
    /\ store # <<>>

====
